---- MODULE Spec2Model ----
(* Model of src/core/gpu/wgpu.rs: the process-wide adapter registry          *)
(* (the two lazy statics), WgpuWrapper::new and undistort_image.            *)
(* Option<T> values are sequences of length at most one: None is <<>> and    *)
(* Some(x) is <<x>>.                                                         *)
EXTENDS Integers, Sequences, FiniteSets, TLC

VARIABLES sys_adapters, wgpu_instance, ADAPTER, listed, wrapper, geometry,
          acquired, inflight, ncalls, call, cmds, output, ret,
          pc, local, writer_bit, readers

vars == <<sys_adapters, wgpu_instance, ADAPTER, listed, wrapper, geometry,
          acquired, inflight, ncalls, call, cmds, output, ret,
          pc, local, writer_bit, readers>>

frame_vars == <<inflight, ncalls, call, cmds, output>>

(* The threads' positions and locals, and the state of the two RwLocks:    *)
(* left alone by the actions that run a function in one step.              *)
lock_vars == <<pc, local, writer_bit, readers>>

None == <<>>
Some(x) == <<x>>

(* ---------------------------------------------------------------------- *)
(* Bounds of the model                                                     *)
(* ---------------------------------------------------------------------- *)
MaxAdapters == 2
MaxInFlight == 2
MaxCalls == 2
MaxStride == 32768
NumThreads == 2

(* ---------------------------------------------------------------------- *)
(* Program constants                                                       *)
(* ---------------------------------------------------------------------- *)
COPY_BYTES_PER_ROW_ALIGNMENT == 256
MinHeight == 4
MaxWidth == 8192
DrawingFlag == 8
DefaultDrawingLen == 16
MatrixFloats == 9
SizeOfF32 == 4

(* A byte of a buffer that no GPU command has written since its creation   *)
(* (mapped_at_creation: false), and the fill of a caller's fresh output     *)
(* buffer. Pixel bytes are 0..255, so both are told apart from image data.  *)
Untouched == 0 - 1
CallerFill == 0 - 2

(* ---------------------------------------------------------------------- *)
(* Adapters of the system                                                  *)
(* ---------------------------------------------------------------------- *)
Adapters == {"dGPU", "iGPU", "swCPU"}

get_info(a) ==
    [name |-> a,
     backend |-> IF a = "swCPU" THEN "Gl" ELSE "Vulkan",
     device_type |-> CASE a = "dGPU" -> "DiscreteGpu"
                       [] a = "iGPU" -> "IntegratedGpu"
                       [] OTHER -> "Cpu"]

(* format!("{} ({:?})", info.name, info.backend) *)
FormatName(info) == <<info.name, " (", info.backend, ")">>

(* format!("[wgpu] {} ({:?})", info.name, info.backend) *)
FormatListName(info) == <<"[wgpu] ">> \o FormatName(info)

NoDup(s) == \A i, j \in 1..Len(s) : i /= j => s[i] /= s[j]

(* What instance.enumerate_adapters() can yield: any arrangement of the    *)
(* adapters present in the machine.                                        *)
AdapterLists ==
    {s \in UNION {[1..n -> Adapters] : n \in 0..MaxAdapters} : NoDup(s)}

(* instance.request_adapter(HighPerformance, force_fallback_adapter:false): *)
(* a discrete GPU if there is one, else an integrated one, else whatever    *)
(* is left (a CPU adapter), else nothing.                                   *)
Rank(a) == CASE get_info(a).device_type = "DiscreteGpu" -> 0
             [] get_info(a).device_type = "IntegratedGpu" -> 1
             [] OTHER -> 2

request_adapter(adapters) ==
    IF Len(adapters) = 0 THEN None
    ELSE LET best == CHOOSE i \in 1..Len(adapters) :
                        \A j \in 1..Len(adapters) :
                            Rank(adapters[i]) <= Rank(adapters[j])
         IN Some(adapters[best])

(* ---------------------------------------------------------------------- *)
(* Registry functions                                                      *)
(* ---------------------------------------------------------------------- *)
list_devices_ret(adapters) ==
    [i \in 1..Len(adapters) |-> FormatName(get_info(adapters[i]))]

ListDevices ==
    /\ listed' = Some(list_devices_ret(sys_adapters))
    /\ wgpu_instance' = Some("instance")
    /\ ret' = [op |-> "list_devices", val |-> list_devices_ret(sys_adapters)]
    /\ UNCHANGED <<sys_adapters, ADAPTER, wrapper, geometry, acquired>>
    /\ UNCHANGED frame_vars
    /\ UNCHANGED lock_vars

(* The loop of set_device: the adapter found at position index (0-based)   *)
(* of the enumeration made inside the call, if any.                        *)
set_device_find(adapters, index) ==
    IF index < Len(adapters) THEN Some(adapters[index + 1]) ELSE None

SetDevice(index) ==
    LET found == set_device_find(sys_adapters, index) IN
    /\ wgpu_instance' = IF wgpu_instance = None THEN Some("instance")
                        ELSE wgpu_instance
    /\ ADAPTER' = IF found /= None THEN found ELSE ADAPTER
    /\ ret' = [op |-> "set_device", index |-> index,
               val |-> IF found /= None THEN Some("unit") ELSE None]
    /\ UNCHANGED <<sys_adapters, listed, wrapper, geometry, acquired>>
    /\ UNCHANGED frame_vars
    /\ UNCHANGED lock_vars

get_info_ret(adapter) ==
    IF adapter /= None THEN Some(FormatName(get_info(adapter[1]))) ELSE None

GetInfo ==
    /\ ret' = [op |-> "get_info", val |-> get_info_ret(ADAPTER)]
    /\ UNCHANGED <<sys_adapters, wgpu_instance, ADAPTER, listed, wrapper, geometry,
                   acquired>>
    /\ UNCHANGED frame_vars
    /\ UNCHANGED lock_vars

(* initialize_context as a function of the registry and the machine:       *)
(* the registry it leaves and the value it returns.                        *)
initialize_context(instance, adapter, adapters) ==
    LET inst == IF instance = None THEN Some("instance") ELSE instance
        req == request_adapter(adapters)
    IN IF req = None
         THEN [instance |-> inst, ADAPTER |-> adapter, val |-> None]
       ELSE IF get_info(req[1]).device_type = "Cpu"
         THEN [instance |-> inst, ADAPTER |-> adapter, val |-> None]
       ELSE [instance |-> inst, ADAPTER |-> req,
             val |-> Some(<<get_info(req[1]).name,
                            FormatListName(get_info(req[1]))>>)]

InitializeContext ==
    LET r == initialize_context(wgpu_instance, ADAPTER, sys_adapters) IN
    /\ wgpu_instance' = r.instance
    /\ ADAPTER' = r.ADAPTER
    /\ ret' = [op |-> "initialize_context", val |-> r.val]
    /\ UNCHANGED <<sys_adapters, listed, wrapper, geometry, acquired>>
    /\ UNCHANGED frame_vars
    /\ UNCHANGED lock_vars

(* The machine's adapters change between two enumerations (a device is     *)
(* added, removed, or reported in another order).                          *)
AdaptersChange ==
    /\ sys_adapters' \in AdapterLists \ {sys_adapters}
    /\ UNCHANGED <<wgpu_instance, ADAPTER, listed, wrapper, geometry, acquired,
                   ret>>
    /\ UNCHANGED frame_vars
    /\ UNCHANGED lock_vars

(* ---------------------------------------------------------------------- *)
(* WgpuWrapper::new                                                        *)
(* ---------------------------------------------------------------------- *)
(* KernelParams and BufferDescription of one frame geometry. A size triple *)
(* is <<width, height, stride>>, as input_size.0 / .1 / .2 in the source.  *)
Geom(iw, ih, is, ow, oh, os, flags, dl) ==
    [params |-> [width |-> iw, height |-> ih, stride |-> is,
                 output_width |-> ow, output_height |-> oh, flags |-> flags],
     buffers |-> [input_size |-> <<iw, ih, is>>,
                  output_size |-> <<ow, oh, os>>],
     drawing_len |-> dl]

rejected_no_output_height(params) ==
    \/ params.height < MinHeight
    \/ params.stride < 1
    \/ params.width > MaxWidth
    \/ params.output_width > MaxWidth

rejected(params) ==
    \/ params.height < MinHeight
    \/ params.output_height < MinHeight
    \/ params.stride < 1
    \/ params.width > MaxWidth
    \/ params.output_width > MaxWidth

(* (params.flags & 8) == 8 *)
drawing_enabled(params) == (params.flags \div DrawingFlag) % 2 = 1

padding_no_wrap(output_stride, align) == align - (output_stride % align)

padding(output_stride, align) == (align - (output_stride % align)) % align

padded_out_stride(output_stride, align) ==
    output_stride + padding(output_stride, align)

staging_size(output_stride, output_height, align) ==
    padded_out_stride(output_stride, align) * output_height

(* The steps of new() after the device was obtained, in source order.      *)
Allocations ==
    <<"create_shader_module", "create_buffer:staging_buffer",
      "create_buffer:buf_matrices", "create_buffer:buf_params",
      "create_buffer:buf_drawing", "create_buffer_init:buf_coeffs",
      "create_texture:in_pixels", "create_texture:out_pixels",
      "create_bind_group_layout", "create_pipeline_layout",
      "create_render_pipeline", "create_bind_group">>

(* The struct new() returns. Buffers and textures start zeroed: the token  *)
(* 0 stands for zeroed contents, and the staging buffer's bytes come into  *)
(* being with the first copy into it (see StagingData).                    *)
new_wrapper(params, bufs, drawing_len, adapter) ==
    LET max_matrix_count == MatrixFloats * params.height
        len == IF drawing_enabled(params) THEN drawing_len
               ELSE DefaultDrawingLen
    IN [adapter |-> adapter,
        staging_buffer |-> <<>>,
        staging_size |-> staging_size(bufs.output_size[3], bufs.output_size[2],
                                      COPY_BYTES_PER_ROW_ALIGNMENT),
        mapped |-> FALSE,
        out_pixels |-> Untouched,
        in_pixels |-> 0,
        buf_matrices |-> [i \in 1..params.height |-> 0],
        buf_params |-> 0,
        buf_drawing |-> [i \in 1..len |-> 0],
        padded_out_stride |-> padded_out_stride(bufs.output_size[3],
                                                COPY_BYTES_PER_ROW_ALIGNMENT),
        in_size |-> bufs.input_size[3] * bufs.input_size[2],
        out_size |-> bufs.output_size[3] * bufs.output_size[2],
        params_size |-> max_matrix_count * SizeOfF32,
        drawing_size |-> len]

(* adapter.request_device(..).ok(): a device is obtained when the driver    *)
(* grants one, which it cannot for an adapter no longer in the machine.    *)
request_device(adapter, adapters, device_ok) ==
    device_ok /\ \E i \in 1..Len(adapters) : adapters[i] = adapter

(* new() as a function of its arguments, the registry, the machine and the *)
(* outcome of adapter.request_device: the registry it leaves, the steps    *)
(* that acquired or allocated something, and the value it returns.         *)
new(g, instance, adapter, adapters, device_ok) ==
    IF rejected(g.params)
      THEN [instance |-> instance, ADAPTER |-> adapter, acquired |-> <<>>,
            val |-> None]
    ELSE
      LET adapter_initialized == adapter /= None
          ctx == IF ~adapter_initialized
                   THEN initialize_context(instance, adapter, adapters)
                 ELSE [instance |-> instance, ADAPTER |-> adapter]
          log1 == IF ~adapter_initialized THEN <<"request_adapter">> ELSE <<>>
      IN IF ctx.ADAPTER = None
           THEN [instance |-> ctx.instance, ADAPTER |-> ctx.ADAPTER,
                 acquired |-> log1, val |-> None]
         ELSE IF ~request_device(ctx.ADAPTER[1], adapters, device_ok)
           THEN [instance |-> ctx.instance, ADAPTER |-> ctx.ADAPTER,
                 acquired |-> Append(log1, "request_device"), val |-> None]
         ELSE [instance |-> ctx.instance, ADAPTER |-> ctx.ADAPTER,
               acquired |-> Append(log1, "request_device") \o Allocations,
               val |-> Some(new_wrapper(g.params, g.buffers, g.drawing_len,
                                        ctx.ADAPTER[1]))]

Build(g, device_ok) ==
    LET r == new(g, wgpu_instance, ADAPTER, sys_adapters, device_ok) IN
    /\ wgpu_instance' = r.instance
    /\ ADAPTER' = r.ADAPTER
    /\ acquired' = r.acquired
    /\ wrapper' = r.val
    /\ geometry' = Some(g)
    /\ ret' = [op |-> "new", val |-> r.val /= None]
    /\ UNCHANGED <<sys_adapters, listed>>
    /\ UNCHANGED frame_vars
    /\ UNCHANGED lock_vars

(* ---------------------------------------------------------------------- *)
(* WgpuWrapper::undistort_image                                            *)
(* ---------------------------------------------------------------------- *)
BufferSources == {"None", "Cpu", "OpenCL", "DirectX", "OpenGL", "Vulkan"}

RECURSIVE SumSeq(_)
SumSeq(s) == IF s = <<>> THEN 0 ELSE Head(s) + SumSeq(Tail(s))

(* The fragment shader as a function of the five bound resources: what the *)
(* render pass leaves in out_pixels, and the byte of that image at column  *)
(* c (in bytes) of row r.                                                  *)
Render(w) ==
    (97 * w.in_pixels + 31 * w.buf_params + 13 * SumSeq(w.buf_matrices)
       + 7 * SumSeq(w.buf_drawing) + 1) % 256

PixelByte(image, r, c) == (image + 7 * r + 3 * c) % 256

(* Bytes of one texel, for rows packed as the size triple describes them.  *)
TexelBytes(size) == size[3] \div size[1]

(* The staging buffer's bytes; never written, it holds Untouched bytes.    *)
StagingData(w) ==
    IF w.staging_buffer = <<>> THEN [i \in 1..w.staging_size |-> Untouched]
    ELSE w.staging_buffer

(* encoder.copy_texture_to_buffer(out_pixels -> staging_buffer) with       *)
(* bytes_per_row = padded_out_stride and the extent of the output size:    *)
(* each row's texels land at the start of its padded row; the bytes behind *)
(* them keep what they held.                                               *)
copy_texture_to_buffer(w, bufs) ==
    LET row_bytes == bufs.output_size[1] * TexelBytes(bufs.output_size)
        old == StagingData(w)
    IN [i \in 1..w.staging_size |->
          LET r == (i - 1) \div w.padded_out_stride
              c == (i - 1) % w.padded_out_stride
          IN IF r < bufs.output_size[2] /\ c < row_bytes
               THEN PixelByte(w.out_pixels, r, c)
             ELSE old[i]]

(* queue.write_buffer(buf, 0, data): the first Len(data) elements.         *)
write_buffer(buf, data) ==
    [i \in 1..Len(buf) |-> IF i <= Len(data) THEN data[i] ELSE buf[i]]

(* The state of one call: the wrapper's resources, the GPU commands issued *)
(* so far, the commands recorded in the encoder, the caller's output       *)
(* buffer, the batches submitted and not finished, and the value returned  *)
(* (None while the call is running).                                       *)
Enter(w, out, pending) ==
    [w |-> w, cmds |-> <<>>, encoder |-> <<>>, output |-> out,
     inflight |-> pending, ret |-> None]

Return(cs, v) == [cs EXCEPT !.ret = Some(v)]

Issue(cs, c) == [cs EXCEPT !.cmds = Append(@, c)]

dispatch_no_in_check(cs, a) ==
    IF cs.ret /= None THEN cs
    ELSE CASE a.src = "None" -> cs
           [] a.src = "Cpu" ->
                IF cs.w.out_size /= Len(cs.output) THEN Return(cs, FALSE)
                ELSE Issue([cs EXCEPT !.w.in_pixels = a.px], "write_texture")
           [] a.src = "OpenCL" -> Return(cs, FALSE)
           [] a.src = "DirectX" -> Return(cs, FALSE)
           [] a.src = "OpenGL" -> Return(cs, FALSE)
           [] a.src = "Vulkan" -> cs

(* match &buffers.buffers { ... } *)
dispatch(cs, a) ==
    IF cs.ret /= None THEN cs
    ELSE CASE a.src = "None" -> cs
           [] a.src = "Cpu" ->
                IF cs.w.in_size /= a.in_len THEN Return(cs, FALSE)
                ELSE IF cs.w.out_size /= Len(cs.output) THEN Return(cs, FALSE)
                ELSE Issue([cs EXCEPT !.w.in_pixels = a.px], "write_texture")
           [] a.src = "OpenCL" -> Return(cs, FALSE)
           [] a.src = "DirectX" -> Return(cs, FALSE)
           [] a.src = "OpenGL" -> Return(cs, FALSE)
           [] a.src = "Vulkan" -> cs

upload_reject_full(cs, a) ==
    IF cs.ret /= None THEN cs
    ELSE IF cs.w.params_size <= Len(a.matrices) * MatrixFloats * SizeOfF32
      THEN Return(cs, FALSE)
    ELSE
      LET c1 == Issue([cs EXCEPT !.w.buf_matrices =
                          write_buffer(@, a.matrices)],
                      "write_buffer:buf_matrices")
          c2 == Issue([c1 EXCEPT !.w.buf_params = a.kernel_params],
                      "write_buffer:buf_params")
      IN IF a.drawing_buffer /= <<>>
           THEN IF c2.w.drawing_size < Len(a.drawing_buffer)
                  THEN Return(c2, FALSE)
                ELSE Issue([c2 EXCEPT !.w.buf_drawing =
                               write_buffer(@, a.drawing_buffer)],
                           "write_buffer:buf_drawing")
         ELSE c2

(* The matrix size check and the three uploads. Matrices are 9 f32 each.   *)
upload(cs, a) ==
    IF cs.ret /= None THEN cs
    ELSE IF cs.w.params_size < Len(a.matrices) * MatrixFloats * SizeOfF32
      THEN Return(cs, FALSE)
    ELSE
      LET c1 == Issue([cs EXCEPT !.w.buf_matrices =
                          write_buffer(@, a.matrices)],
                      "write_buffer:buf_matrices")
          c2 == Issue([c1 EXCEPT !.w.buf_params = a.kernel_params],
                      "write_buffer:buf_params")
      IN IF a.drawing_buffer /= <<>>
           THEN IF c2.w.drawing_size < Len(a.drawing_buffer)
                  THEN Return(c2, FALSE)
                ELSE Issue([c2 EXCEPT !.w.buf_drawing =
                               write_buffer(@, a.drawing_buffer)],
                           "write_buffer:buf_drawing")
         ELSE c2

(* create_command_encoder, begin_render_pass ... draw(0..6, 0..1) *)
render_pass(cs, a) ==
    IF cs.ret /= None THEN cs
    ELSE Issue([cs EXCEPT !.encoder = Append(@, "render_pass")],
               "render_pass")

(* if let BufferSource::Cpu { .. } = buffers.buffers { copy_texture_to_buffer } *)
record_copy(cs, a) ==
    IF cs.ret /= None THEN cs
    ELSE IF a.src = "Cpu"
      THEN Issue([cs EXCEPT !.encoder = Append(@, "copy_texture_to_buffer")],
                 "copy_texture_to_buffer")
    ELSE cs

(* queue.submit(Some(encoder.finish())): the recorded commands take effect *)
(* in the order recorded; the batch is in flight until the device is done. *)
submit(cs, a, bufs) ==
    IF cs.ret /= None THEN cs
    ELSE
      LET c1 == [cs EXCEPT !.w.out_pixels = Render(cs.w)]
          c2 == IF Len(cs.encoder) = 2
                  THEN [c1 EXCEPT !.w.staging_buffer =
                                      copy_texture_to_buffer(c1.w, bufs)]
                ELSE c1
      IN Issue([c2 EXCEPT !.inflight = @ + 1, !.encoder = <<>>], "submit")

copy_output_tight(data, padded, out, stride) ==
    IF padded = stride THEN data
    ELSE [i \in 1..Len(out) |-> data[i]]

(* The copy into the caller's buffer: copy_from_slice on the whole mapped  *)
(* range, or par_chunks(padded).zip(par_chunks_mut(stride)) with           *)
(* dest.copy_from_slice(&src[0..stride]) on each pair.                     *)
copy_output(data, padded, out, stride) ==
    IF padded = stride THEN data
    ELSE LET pairs == IF (Len(data) + padded - 1) \div padded
                           < (Len(out) + stride - 1) \div stride
                        THEN (Len(data) + padded - 1) \div padded
                      ELSE (Len(out) + stride - 1) \div stride
         IN [i \in 1..Len(out) |->
               LET k == (i - 1) \div stride
                   c == (i - 1) % stride
               IN IF k < pairs THEN data[k * padded + c + 1] ELSE out[i]]

readback_copy_first(cs, a, bufs) ==
    IF cs.ret /= None THEN cs
    ELSE IF a.src /= "Cpu" THEN cs
    ELSE
      LET c1 == Issue(cs, "map_async")
          c2 == Issue([c1 EXCEPT !.inflight = 0], "poll_wait")
          c3 == [c2 EXCEPT !.w.mapped = TRUE]
          c4 == Issue([c3 EXCEPT !.output =
                         copy_output(StagingData(c3.w), c3.w.padded_out_stride,
                                     @, bufs.output_size[3])],
                      "copy_output")
      IN IF a.map_ok THEN Issue([c4 EXCEPT !.w.mapped = FALSE], "unmap")
         ELSE Return(c4, FALSE)

(* if let BufferSource::Cpu { output, .. } = &mut buffers.buffers { ... } *)
readback(cs, a, bufs) ==
    IF cs.ret /= None THEN cs
    ELSE IF a.src /= "Cpu" THEN cs
    ELSE
      LET c1 == Issue(cs, "map_async")
          c2 == Issue([c1 EXCEPT !.inflight = 0], "poll_wait")
      IN IF a.map_ok
           THEN LET c3 == [c2 EXCEPT !.w.mapped = TRUE]
                    data == StagingData(c3.w)
                    c4 == Issue([c3 EXCEPT !.output =
                                   copy_output(data, c3.w.padded_out_stride,
                                               @, bufs.output_size[3])],
                                "copy_output")
                IN Issue([c4 EXCEPT !.w.mapped = FALSE], "unmap")
         ELSE Return(c2, FALSE)

finish(cs) == IF cs.ret /= None THEN cs ELSE Return(cs, TRUE)

undistort_image_copy_first(w, bufs, a, out, pending) ==
    finish(readback(submit(render_pass(record_copy(upload(dispatch(
        Enter(w, out, pending), a), a), a), a), a, bufs), a, bufs))

undistort_image(w, bufs, a, out, pending) ==
    finish(readback(submit(record_copy(render_pass(upload(dispatch(
        Enter(w, out, pending), a), a), a), a), a, bufs), a, bufs))

(* The calls process() is given for a wrapper. Frame k comes with its own *)
(* pixels and its own FrameTransform, both told apart from those of other  *)
(* frames by the number k. The transform carries as many matrices as the   *)
(* matrix buffer holds, or one more; the overlay is empty, fills the       *)
(* overlay buffer, or is one byte longer.                                  *)
Transforms(w, k) ==
    {[matrices |-> [i \in 1..n |-> k], kernel_params |-> k] :
        n \in {Len(w.buf_matrices), Len(w.buf_matrices) + 1}}

Overlays(w, k) ==
    {[i \in 1..n |-> k] : n \in {0, w.drawing_size, w.drawing_size + 1}}

Call(src, in_len, out_len, px, itm, drawing_buffer, map_ok) ==
    [src |-> src, in_len |-> in_len, out_len |-> out_len, px |-> px,
     matrices |-> itm.matrices, kernel_params |-> itm.kernel_params,
     drawing_buffer |-> drawing_buffer, map_ok |-> map_ok]

(* Cpu buffers of the right lengths, with both outcomes of the map; Cpu    *)
(* buffers with a wrong input or output length; the variants without CPU   *)
(* buffers.                                                                *)
Calls(w, k) ==
    {Call("Cpu", w.in_size, w.out_size, k, itm, d, ok) :
        itm \in Transforms(w, k), d \in Overlays(w, k), ok \in BOOLEAN}
    \cup
    {Call("Cpu", w.in_size + l[1], w.out_size - l[2], k, itm, d, TRUE) :
        l \in {<<1, 0>>, <<0, 1>>, <<1, 1>>}, itm \in Transforms(w, k),
        d \in Overlays(w, k)}
    \cup
    {Call(src, 0, 0, 0, itm, d, TRUE) :
        src \in BufferSources \ {"Cpu"}, itm \in Transforms(w, k),
        d \in Overlays(w, k)}

(* The caller's output buffer as handed to the call. Only the Cpu variant  *)
(* carries one.                                                            *)
OutputOf(a) ==
    IF a.src = "Cpu" THEN [i \in 1..a.out_len |-> CallerFill] ELSE <<>>

Process(a) ==
    /\ wrapper /= None
    /\ ncalls < MaxCalls
    /\ ncalls' = ncalls + 1
    /\ LET r == undistort_image(wrapper[1], geometry[1].buffers, a,
                                OutputOf(a), inflight)
       IN /\ r.inflight <= MaxInFlight
          /\ wrapper' = Some(r.w)
          /\ inflight' = r.inflight
          /\ cmds' = r.cmds
          /\ output' = r.output
          /\ call' = Some(a)
          /\ ret' = [op |-> "process", val |-> r.ret[1]]
    /\ UNCHANGED <<sys_adapters, wgpu_instance, ADAPTER, listed, geometry,
                   acquired>>
    /\ UNCHANGED lock_vars

(* The device finishes the oldest batch in flight.                         *)
DeviceComplete ==
    /\ inflight > 0
    /\ inflight' = inflight - 1
    /\ UNCHANGED <<sys_adapters, wgpu_instance, ADAPTER, listed, wrapper,
                   geometry, acquired, ncalls, call, cmds, output, ret>>
    /\ UNCHANGED lock_vars

(* ---------------------------------------------------------------------- *)
(* The registry functions and new() step by step, on the two locks         *)
(* ---------------------------------------------------------------------- *)
(* INSTANCE and ADAPTER are parking_lot RwLocks. A lock has its writer     *)
(* bit, owned by one thread or by none (0), and a count of read guards     *)
(* per thread. read() is granted while the writer bit is clear; write()    *)
(* takes the writer bit as soon as it is clear and then waits until the    *)
(* read guards are gone. A guard that is a temporary is dropped at the     *)
(* end of its statement (of the condition, for an if), a guard bound by    *)
(* let when the function returns.                                          *)
Threads == 1..NumThreads

(* What a call hands back and what new() builds are not followed here:     *)
(* they are in the actions that run a function in one step.                *)
result_vars == <<sys_adapters, listed, wrapper, geometry, acquired, ret>>

Locks == {"INSTANCE", "ADAPTER"}

Idle == [fn |-> "idle", at |-> "idle"]

(* local[t]: the function thread t called from its idle loop, and the     *)
(* adapter it has in hand (a in set_device, adapter in initialize_context). *)
NoLocal == [op |-> "none", adapter |-> None]

At(t, fn, at) == pc[t] = [fn |-> fn, at |-> at]

Goto(t, fn, at) == pc' = [pc EXCEPT ![t] = [fn |-> fn, at |-> at]]

lock_shared(t, l) ==
    /\ writer_bit[l] = 0
    /\ readers' = [readers EXCEPT ![l][t] = @ + 1]
    /\ UNCHANGED writer_bit

unlock_shared(t, l) ==
    /\ readers' = [readers EXCEPT ![l][t] = @ - 1]
    /\ UNCHANGED writer_bit

lock_exclusive(t, l) ==
    /\ writer_bit[l] = 0
    /\ writer_bit' = [writer_bit EXCEPT ![l] = t]
    /\ UNCHANGED readers

wait_for_readers(t, l) ==
    /\ writer_bit[l] = t
    /\ \A u \in Threads : readers[l][u] = 0

(* Function fn returns to its caller: to new() when new() called it, else  *)
(* to the thread's idle loop. What the functions return is in the actions  *)
(* that run them in one step; here it matters only where it decides the    *)
(* next lock operation.                                                    *)
ReturnFrom(t, fn) ==
    IF local[t].op = "new" /\ fn = "initialize_context"
      THEN /\ Goto(t, "new", "read")
           /\ local' = [local EXCEPT ![t].adapter = None]
    ELSE /\ pc' = [pc EXCEPT ![t] = Idle]
         /\ local' = [local EXCEPT ![t] = NoLocal]

(* A thread calls one of the functions. list_devices makes its own         *)
(* instance and enumerates before it touches a lock. The arguments of a    *)
(* call come in at the step that first reads them.                         *)
LockOps == {"list_devices", "set_device", "get_info", "initialize_context",
            "new"}

Entry(op) == CASE op = "list_devices" -> "write"
               [] op = "get_info" -> "read"
               [] op = "new" -> "entry"
               [] OTHER -> "check"

LockGeoms ==
    {Geom(2, 4, 8, 2, 4, 8, 8, 32),
     Geom(64, 3, 256, 64, 4, 256, 0, 0)}

StartCall(t) ==
    /\ pc[t] = Idle
    /\ \E op \in LockOps :
         /\ Goto(t, op, Entry(op))
         /\ local' = [local EXCEPT ![t] = [op |-> op, adapter |-> None]]
    /\ UNCHANGED <<wgpu_instance, ADAPTER, writer_bit, readers>>
    /\ UNCHANGED result_vars
    /\ UNCHANGED frame_vars

(* *INSTANCE.write() = Some(instance); ret                                 *)
list_devices_step(t) ==
    \/ /\ At(t, "list_devices", "write")
       /\ lock_exclusive(t, "INSTANCE")
       /\ Goto(t, "list_devices", "store")
       /\ UNCHANGED <<wgpu_instance, local>>
    \/ /\ At(t, "list_devices", "store")
       /\ wait_for_readers(t, "INSTANCE")
       /\ wgpu_instance' = Some("instance")
       /\ writer_bit' = [writer_bit EXCEPT !["INSTANCE"] = 0]
       /\ ReturnFrom(t, "list_devices")
       /\ UNCHANGED readers

(* if INSTANCE.read().is_none() { *INSTANCE.write() = Some(..); }          *)
(* let lock = INSTANCE.read();                                             *)
(* at the head of set_device and of initialize_context (fn).               *)
instance_step(t, fn) ==
    \/ /\ At(t, fn, "check")
       /\ lock_shared(t, "INSTANCE")
       /\ Goto(t, fn, "test")
       /\ UNCHANGED wgpu_instance
    \/ /\ At(t, fn, "test")
       /\ unlock_shared(t, "INSTANCE")
       /\ Goto(t, fn, IF wgpu_instance = None THEN "create" ELSE "lock")
       /\ UNCHANGED wgpu_instance
    \/ /\ At(t, fn, "create")
       /\ lock_exclusive(t, "INSTANCE")
       /\ Goto(t, fn, "store")
       /\ UNCHANGED wgpu_instance
    \/ /\ At(t, fn, "store")
       /\ wait_for_readers(t, "INSTANCE")
       /\ wgpu_instance' = Some("instance")
       /\ writer_bit' = [writer_bit EXCEPT !["INSTANCE"] = 0]
       /\ Goto(t, fn, "lock")
       /\ UNCHANGED readers
    \/ /\ At(t, fn, "lock")
       /\ lock_shared(t, "INSTANCE")
       /\ Goto(t, fn, "body")
       /\ UNCHANGED wgpu_instance

(* *ADAPTER.write() = Some(a), with the guard on INSTANCE still held, and  *)
(* the return that follows it: both guards are gone when fn has returned.  *)
adapter_step(t, fn) ==
    \/ /\ At(t, fn, "select")
       /\ lock_exclusive(t, "ADAPTER")
       /\ Goto(t, fn, "store_adapter")
       /\ UNCHANGED <<ADAPTER, local>>
    \/ /\ At(t, fn, "store_adapter")
       /\ wait_for_readers(t, "ADAPTER")
       /\ ADAPTER' = local[t].adapter
       /\ writer_bit' = [writer_bit EXCEPT !["ADAPTER"] = 0]
       /\ readers' = [readers EXCEPT !["INSTANCE"][t] = @ - 1]
       /\ ReturnFrom(t, fn)

(* The loop of set_device over instance.enumerate_adapters().              *)
set_device_step(t) ==
    \/ /\ instance_step(t, "set_device")
       /\ UNCHANGED <<ADAPTER, local>>
    \/ /\ At(t, "set_device", "body")
       /\ \E index \in 0..1 :
            LET found == set_device_find(sys_adapters, index) IN
            IF found = None
              THEN /\ unlock_shared(t, "INSTANCE")
                   /\ ReturnFrom(t, "set_device")
            ELSE /\ Goto(t, "set_device", "select")
                 /\ local' = [local EXCEPT ![t].adapter = found]
                 /\ UNCHANGED <<writer_bit, readers>>
       /\ UNCHANGED <<wgpu_instance, ADAPTER>>
    \/ /\ adapter_step(t, "set_device")
       /\ UNCHANGED wgpu_instance

(* request_adapter(..)?, the DeviceType::Cpu test, and the store.          *)
initialize_context_step(t) ==
    \/ /\ instance_step(t, "initialize_context")
       /\ UNCHANGED <<ADAPTER, local>>
    \/ /\ At(t, "initialize_context", "body")
       /\ LET req == request_adapter(sys_adapters) IN
          IF req = None
            THEN /\ unlock_shared(t, "INSTANCE")
                 /\ ReturnFrom(t, "initialize_context")
          ELSE IF get_info(req[1]).device_type = "Cpu"
            THEN /\ unlock_shared(t, "INSTANCE")
                 /\ ReturnFrom(t, "initialize_context")
          ELSE /\ Goto(t, "initialize_context", "select")
               /\ local' = [local EXCEPT ![t].adapter = req]
               /\ UNCHANGED <<writer_bit, readers>>
       /\ UNCHANGED <<wgpu_instance, ADAPTER>>
    \/ /\ adapter_step(t, "initialize_context")
       /\ UNCHANGED wgpu_instance

(* let lock = ADAPTER.read(); ... the value; the guard goes on return.     *)
get_info_step(t) ==
    \/ /\ At(t, "get_info", "read")
       /\ lock_shared(t, "ADAPTER")
       /\ Goto(t, "get_info", "body")
       /\ UNCHANGED local
    \/ /\ At(t, "get_info", "body")
       /\ unlock_shared(t, "ADAPTER")
       /\ ReturnFrom(t, "get_info")

new_test_guard_kept(t) ==
    /\ At(t, "new", "test")
    /\ IF ADAPTER = None
         THEN Goto(t, "initialize_context", "check")
       ELSE Goto(t, "new", "read")
    /\ UNCHANGED <<writer_bit, readers, local>>

(* let adapter_initialized = ADAPTER.read().is_some(): the guard is a      *)
(* temporary of the let statement.                                         *)
(* if !adapter_initialized { Self::initialize_context(); }                 *)
new_test(t) ==
    /\ At(t, "new", "test")
    /\ unlock_shared(t, "ADAPTER")
    /\ IF ADAPTER = None
         THEN Goto(t, "initialize_context", "check")
       ELSE Goto(t, "new", "read")
    /\ UNCHANGED local

(* new(): the geometry test comes before any lock; the guard of           *)
(* let lock = ADAPTER.read() is held over request_device and the           *)
(* allocations, up to the return.                                          *)
new_step(t) ==
    \/ /\ At(t, "new", "entry")
       /\ \E g \in LockGeoms :
            IF rejected(g.params)
              THEN ReturnFrom(t, "new")
            ELSE Goto(t, "new", "check") /\ UNCHANGED local
       /\ UNCHANGED <<writer_bit, readers>>
    \/ /\ At(t, "new", "check")
       /\ lock_shared(t, "ADAPTER")
       /\ Goto(t, "new", "test")
       /\ UNCHANGED local
    \/ new_test(t)
    \/ /\ At(t, "new", "read")
       /\ lock_shared(t, "ADAPTER")
       /\ Goto(t, "new", "body")
       /\ UNCHANGED local
    \/ /\ At(t, "new", "body")
       /\ unlock_shared(t, "ADAPTER")
       /\ ReturnFrom(t, "new")

(* One step of thread t inside the function it is running.                 *)
Run(t) ==
    /\ \/ list_devices_step(t) /\ UNCHANGED ADAPTER
       \/ set_device_step(t)
       \/ initialize_context_step(t)
       \/ get_info_step(t) /\ UNCHANGED <<wgpu_instance, ADAPTER>>
       \/ new_step(t) /\ UNCHANGED <<wgpu_instance, ADAPTER>>
    /\ UNCHANGED result_vars
    /\ UNCHANGED frame_vars

(* ---------------------------------------------------------------------- *)
(* Specifications                                                          *)
(* ---------------------------------------------------------------------- *)
Empty ==
    /\ wgpu_instance = None
    /\ ADAPTER = None
    /\ listed = None
    /\ wrapper = None
    /\ geometry = None
    /\ acquired = <<>>
    /\ inflight = 0
    /\ ncalls = 0
    /\ call = None
    /\ cmds = <<>>
    /\ output = <<>>
    /\ ret = [op |-> "none"]
    /\ pc = [t \in Threads |-> Idle]
    /\ local = [t \in Threads |-> NoLocal]
    /\ writer_bit = [l \in Locks |-> 0]
    /\ readers = [l \in Locks |-> [t \in Threads |-> 0]]

(* Frame processing on a machine with one discrete GPU.                    *)
FrameGeoms ==
    {Geom(64, 4, 256, 64, 4, 256, 0, 0),
     Geom(2, 4, 8, 2, 4, 8, 8, 32),
     Geom(2, 4, 8, 2, 5, 8, 0, 0)}

Init == sys_adapters = <<"dGPU">> /\ Empty

Next ==
    \/ wrapper = None /\ \E g \in FrameGeoms, ok \in BOOLEAN : Build(g, ok)
    \/ wrapper /= None /\ \E a \in Calls(wrapper[1], ncalls + 1) : Process(a)
    \/ DeviceComplete

Spec == Init /\ [][Next]_vars

(* The registry and new() on every machine.                                *)
BuildGeoms ==
    {Geom(8192, 4, 1, 8192, 4, 256, 0, 0),
     Geom(2, 4, 8, 2, 4, 8, 8, 32),
     Geom(64, 3, 256, 64, 4, 256, 0, 0),
     Geom(64, 4, 256, 64, 3, 256, 0, 0),
     Geom(64, 4, 0, 64, 4, 256, 0, 0),
     Geom(8193, 4, 256, 64, 4, 256, 0, 0),
     Geom(64, 4, 256, 8193, 4, 256, 8, 32)}

InitBuild == sys_adapters \in AdapterLists /\ Empty

NextBuild ==
    \/ ListDevices
    \/ \E index \in 0..MaxAdapters : SetDevice(index)
    \/ GetInfo
    \/ InitializeContext
    \/ AdaptersChange
    \/ \E g \in BuildGeoms, ok \in BOOLEAN : Build(g, ok)

SpecBuild == InitBuild /\ [][NextBuild]_vars

(* The padding of new() on every output stride up to MaxStride.            *)
PadGeom(oh, os) == Geom(1, 4, 4, 1, oh, os, 0, 0)

PadHeights == {4, 1080}

InitPad == sys_adapters = <<"dGPU">> /\ Empty

NextPad ==
    /\ wrapper = None
    /\ \E oh \in PadHeights, os \in 1..MaxStride : Build(PadGeom(oh, os), TRUE)

SpecPad == InitPad /\ [][NextPad]_vars

(* Threads calling the registry functions and new() at the same time, on   *)
(* a machine with a discrete GPU or with a CPU adapter only. A thread      *)
(* inside a function keeps running, and a thread parked on a lock gets it  *)
(* in the end when it is free again and again (parking_lot hands a lock    *)
(* over to parked threads); nothing obliges a thread to make a call.       *)
LockMachines == {<<"dGPU">>, <<"swCPU">>}

InitLocks == sys_adapters \in LockMachines /\ Empty

NextLocks == \E t \in Threads : StartCall(t) \/ Run(t)

SpecLocks ==
    InitLocks /\ [][NextLocks]_vars /\ \A t \in Threads : SF_vars(Run(t))

(* ---------------------------------------------------------------------- *)
(* Properties                                                              *)
(* ---------------------------------------------------------------------- *)
Returned == ret.op = "process"
TheCall == call[1]
InSize == geometry[1].buffers.input_size[2] * geometry[1].buffers.input_size[3]
OutHeight == geometry[1].buffers.output_size[2]
OutStride == geometry[1].buffers.output_size[3]
OutSize == OutHeight * OutStride
MatrixBytes(a) == Len(a.matrices) * 36

(* C1: a process() call with CPU-resident buffers whose input length is   *)
(* not input_height x input_stride returns false and has issued no GPU    *)
(* command at all.                                                        *)
C1_InputMismatchIssuesNothing ==
    (Returned /\ TheCall.src = "Cpu" /\ TheCall.in_len /= InSize)
        => (ret.val = FALSE /\ cmds = <<>>)

C1_Witness ==
    /\ Returned
    /\ TheCall.src = "Cpu"
    /\ TheCall.in_len /= InSize
    /\ TheCall.out_len = OutSize
    /\ ret.val = FALSE

(* The four length disagreements of a call: input and output bytes differ  *)
(* from the sizes of the build; matrix and overlay bytes exceed the        *)
(* capacity of their buffers.                                              *)
InputMismatch(a) == a.src = "Cpu" /\ a.in_len /= InSize
OutputMismatch(a) == a.src = "Cpu" /\ a.out_len /= OutSize
MatrixMismatch(a) == MatrixBytes(a) > wrapper[1].params_size
OverlayMismatch(a) == Len(a.drawing_buffer) > wrapper[1].drawing_size

(* C2: a process() call on CPU or Vulkan buffers in which the input,      *)
(* output, matrix or overlay length disagrees with the size fixed at      *)
(* build time returns false with no GPU work issued, and leaves the input *)
(* texture and the matrix, params and overlay buffers as they were before *)
(* the call.                                                              *)
C2_MismatchIssuesNothing ==
    [][(ncalls' = ncalls + 1
        /\ call'[1].src \in {"Cpu", "Vulkan"}
        /\ (\/ InputMismatch(call'[1]) \/ OutputMismatch(call'[1])
            \/ MatrixMismatch(call'[1]) \/ OverlayMismatch(call'[1])))
       => (/\ ret'.val = FALSE
           /\ cmds' = <<>>
           /\ wrapper'[1].in_pixels = wrapper[1].in_pixels
           /\ wrapper'[1].buf_matrices = wrapper[1].buf_matrices
           /\ wrapper'[1].buf_params = wrapper[1].buf_params
           /\ wrapper'[1].buf_drawing = wrapper[1].buf_drawing)]_vars

(* C3: for the BufferSource variants None, OpenGL, DirectX and OpenCL     *)
(* process() returns false, before any GPU work is issued.                *)
C3_UnsupportedVariantsFail ==
    (Returned /\ TheCall.src \in {"None", "OpenGL", "DirectX", "OpenCL"})
        => (ret.val = FALSE /\ cmds = <<>>)

(* C4: a call that returns false leaves the caller's output buffer byte   *)
(* for byte as it was handed in; a call with CPU-resident buffers that    *)
(* returns true has rewritten every byte of it with the image rendered    *)
(* by that same call, from the frame and transform of that call.          *)
C4_OutputAllOrNothing ==
    Returned =>
      /\ ret.val = FALSE => output = OutputOf(TheCall)
      /\ (ret.val = TRUE /\ TheCall.src = "Cpu") =>
            /\ Len(output) = TheCall.out_len
            /\ wrapper[1].in_pixels = TheCall.px
            /\ wrapper[1].buf_params = TheCall.kernel_params
            /\ \A i \in 1..Len(output) :
                  output[i] = PixelByte(Render(wrapper[1]),
                                        (i - 1) \div OutStride,
                                        (i - 1) % OutStride)

(* A second call on the wrapper succeeds with another frame than the one   *)
(* the first call left in the staging buffer.                              *)
C4_Witness ==
    /\ Returned
    /\ ncalls = 2
    /\ TheCall.src = "Cpu"
    /\ TheCall.px = 2
    /\ ret.val = TRUE
    /\ output /= OutputOf(TheCall)

(* C5: when process() returns after submitting a batch, for CPU and       *)
(* Vulkan buffers alike, no submitted batch is unfinished on the wrapper, *)
(* and never more than one frame is in flight.                            *)
C5_NothingInFlightOnReturn ==
    /\ (Returned /\ TheCall.src \in {"Cpu", "Vulkan"}
          /\ \E i \in 1..Len(cmds) : cmds[i] = "submit") => inflight = 0
    /\ inflight <= 1

(* C6: after a successful CPU-resident process() every output row r holds *)
(* the first output_stride bytes of staging row r: the output equals the  *)
(* staging bytes when the strides agree, and holds no byte of the         *)
(* trailing padding of a staging row when they do not.                    *)
C6_OutputRowsAreStagingRows ==
    (Returned /\ ret.val = TRUE /\ TheCall.src = "Cpu") =>
       LET padded == wrapper[1].padded_out_stride
           staging == StagingData(wrapper[1])
       IN /\ Len(output) = OutHeight * OutStride
          /\ \A r \in 0..(OutHeight - 1) : \A c \in 0..(OutStride - 1) :
                output[r * OutStride + c + 1] = staging[r * padded + c + 1]
          /\ padded = OutStride => output = staging
          /\ padded > OutStride =>
                \A i \in 1..Len(output) : output[i] /= Untouched

C6_Witness ==
    /\ Returned
    /\ ret.val = TRUE
    /\ TheCall.src = "Cpu"
    /\ wrapper[1].padded_out_stride > OutStride
    /\ \E i \in 1..wrapper[1].staging_size :
          StagingData(wrapper[1])[i] = Untouched

(* C7: for alignment 256 and every output stride s in 1..MaxStride, the   *)
(* padding is (256 - s mod 256) mod 256 and is below 256, the padded      *)
(* stride is s plus the padding, is at least s and is a multiple of 256   *)
(* (s = 1000 gives 24 and 1024), and the staging buffer has padded        *)
(* stride x output height bytes.                                          *)
C7_PaddedStride ==
    (wrapper /= None /\ OutStride \in 1..MaxStride) =>
       LET p == wrapper[1].padded_out_stride
       IN /\ p - OutStride = (256 - (OutStride % 256)) % 256
          /\ p - OutStride < 256
          /\ p >= OutStride
          /\ p % 256 = 0
          /\ OutStride = 1000 => (p = 1024 /\ p - OutStride = 24)
          /\ wrapper[1].staging_size = p * OutHeight

C7_Witness ==
    /\ wrapper /= None
    /\ OutStride = 1000
    /\ wrapper[1].padded_out_stride = 1024

(* C8: new() returns nothing when the input height or the output height *)
(* is below 4, the stride below 1, or a width above 8192, and has then    *)
(* acquired no adapter or device and allocated no GPU resource.           *)
C8_InvalidGeometryRejectedFirst ==
    (ret.op = "new"
       /\ (\/ geometry[1].params.height < 4
           \/ geometry[1].params.output_height < 4
           \/ geometry[1].params.stride < 1
           \/ geometry[1].params.width > 8192
           \/ geometry[1].params.output_width > 8192))
      => (ret.val = FALSE /\ wrapper = None /\ acquired = <<>>)

(* An output height of 3 is rejected on a machine whose GPU would have     *)
(* served a valid geometry.                                                *)
C8_Witness ==
    /\ ret.op = "new"
    /\ geometry[1].params.output_height = 3
    /\ ret.val = FALSE
    /\ ADAPTER = None
    /\ sys_adapters = <<"dGPU">>

ValidGeometry(g) ==
    /\ g.params.height >= 4
    /\ g.params.output_height >= 4
    /\ g.params.stride >= 1
    /\ g.params.width <= 8192
    /\ g.params.output_width <= 8192

NonCpuAvailable(adapters) ==
    \E i \in 1..Len(adapters) : get_info(adapters[i]).device_type /= "Cpu"

DeviceRefused == acquired /= <<>> /\ acquired[Len(acquired)] = "request_device"

(* C9: for a valid geometry, after any registry calls, new() returns a    *)
(* pipeline if and only if a non-CPU-emulated adapter is available, and   *)
(* never a pipeline on an adapter whose device type is Cpu. (A call in    *)
(* which the driver refused the device is left aside.)                    *)
C9_PipelineIffRealGpu ==
    [][(ret'.op = "new" /\ sys_adapters' = sys_adapters
          /\ ValidGeometry(geometry'[1]) /\ ~DeviceRefused')
       => (/\ ret'.val = TRUE <=> NonCpuAvailable(sys_adapters)
           /\ ret'.val = TRUE =>
                 get_info(wrapper'[1].adapter).device_type /= "Cpu")]_vars

(* C10: after a list_devices() call, set_device(index) selects the        *)
(* adapter that stood at position index of the list that call returned;   *)
(* for an index that is no position of it, it returns nothing and leaves  *)
(* the selected adapter as it was.                                        *)
C10_SetDeviceFollowsList ==
    [][(ret'.op = "set_device" /\ sys_adapters' = sys_adapters
          /\ listed /= None)
       => IF ret'.index < Len(listed[1])
            THEN /\ ret'.val /= None
                 /\ ADAPTER' /= None
                 /\ FormatName(get_info(ADAPTER'[1]))
                       = listed[1][ret'.index + 1]
          ELSE ret'.val = None /\ ADAPTER' = ADAPTER]_vars

(* A call that got past the residency dispatch, and one that was then      *)
(* turned down by the matrix size test, before the matrix upload.          *)
PassedDispatch(a) ==
    \/ a.src \in {"None", "Vulkan"}
    \/ a.src = "Cpu" /\ a.in_len = InSize /\ a.out_len = OutSize

MatrixRejected ==
    /\ Returned
    /\ PassedDispatch(TheCall)
    /\ ret.val = FALSE
    /\ \A i \in 1..Len(cmds) : cmds[i] /= "write_buffer:buf_matrices"

InHeight == geometry[1].params.height

CpuSteps(a) ==
    <<"write_texture", "write_buffer:buf_matrices", "write_buffer:buf_params">>
    \o (IF a.drawing_buffer /= <<>> THEN <<"write_buffer:buf_drawing">>
        ELSE <<>>)
    \o <<"render_pass", "copy_texture_to_buffer", "submit", "map_async",
         "poll_wait", "copy_output", "unmap">>

IsPrefix(s, t) == Len(s) <= Len(t) /\ \A i \in 1..Len(s) : s[i] = t[i]

(* C13: in every CPU-resident process() call the steps are issued in the  *)
(* order input upload, matrix and params (and non-empty overlay) upload,  *)
(* render pass, texture-to-staging copy, one submission, map request,     *)
(* blocking wait, copy into the caller's output, unmap: a call that       *)
(* succeeds issues all of them, one that fails stops part-way. The copy   *)
(* into the output comes after the wait, with nothing left in flight, and *)
(* the staging buffer is unmapped whenever process() has returned.        *)
C13_CpuStepOrder ==
    /\ wrapper /= None => wrapper[1].mapped = FALSE
    /\ (Returned /\ TheCall.src = "Cpu") =>
         /\ IsPrefix(cmds, CpuSteps(TheCall))
         /\ ret.val = TRUE => cmds = CpuSteps(TheCall)
         /\ \A i \in 1..Len(cmds) : cmds[i] = "copy_output" =>
              /\ \E j \in 1..(i - 1) : cmds[j] = "poll_wait"
              /\ inflight = 0
         /\ output /= OutputOf(TheCall) =>
              \E i \in 1..Len(cmds) : cmds[i] = "copy_output"

(* The second CPU-resident call in a row succeeds with an overlay, having  *)
(* started from the staging buffer the first call left behind.             *)
C13_Witness ==
    /\ Returned
    /\ ncalls = 2
    /\ TheCall.src = "Cpu"
    /\ TheCall.drawing_buffer /= <<>>
    /\ ret.val = TRUE
    /\ cmds = CpuSteps(TheCall)
    /\ output /= OutputOf(TheCall)
    /\ wrapper[1].mapped = FALSE

(* What a thread's next step asks of a lock, and what it holds.           *)
WantsShared(t, l) ==
    \/ l = "INSTANCE" /\ pc[t].fn \in {"set_device", "initialize_context"}
                      /\ pc[t].at \in {"check", "lock"}
    \/ l = "ADAPTER" /\ pc[t] \in {[fn |-> "get_info", at |-> "read"],
                                   [fn |-> "new", at |-> "check"],
                                   [fn |-> "new", at |-> "read"]}

WantsExclusive(t, l) ==
    \/ l = "INSTANCE" /\ pc[t].at \in {"create", "write"}
    \/ l = "ADAPTER" /\ pc[t].at = "select"

WantsDrained(t, l) ==
    \/ l = "INSTANCE" /\ pc[t].at = "store"
    \/ l = "ADAPTER" /\ pc[t].at = "store_adapter"

Holds(t, l) == readers[l][t] > 0 \/ writer_bit[l] = t

(* Thread t cannot go on before thread u lets go of a lock.               *)
WaitsFor(t, u) ==
    \E l \in Locks :
      \/ (WantsShared(t, l) \/ WantsExclusive(t, l)) /\ writer_bit[l] = u
      \/ WantsDrained(t, l) /\ readers[l][u] > 0

RECURSIVE WaitsThrough(_, _, _)
WaitsThrough(t, u, n) ==
    \/ WaitsFor(t, u)
    \/ n > 1 /\ \E v \in Threads : WaitsFor(t, v) /\ WaitsThrough(v, u, n - 1)

Busy(t) == pc[t] /= Idle

NoCyclicWait == \A t \in Threads : ~WaitsThrough(t, t, NumThreads)

NoReacquire ==
    \A t \in Threads, l \in Locks :
      /\ readers[l][t] <= 1
      /\ (WantsShared(t, l) \/ WantsExclusive(t, l)) => ~Holds(t, l)
      /\ WantsDrained(t, l) => readers[l][t] = 0

SomeoneRuns == (\E t \in Threads : Busy(t)) =>
                 \E t \in Threads : Busy(t) /\ ENABLED Run(t)

HoldsOnlyInside == \A t \in Threads, l \in Locks : Holds(t, l) => Busy(t)

(* C12: with threads calling list_devices, get_info, set_device,          *)
(* initialize_context and new() in any interleaving, no deadlock on the   *)
(* INSTANCE and ADAPTER locks is reachable: the threads never wait for    *)
(* one another in a cycle, no thread asks for a lock it already holds,    *)
(* some thread inside a call can always take a step, and every call that  *)
(* was started returns. The threads run the same program and start alike, *)
(* so the calls of thread 1 stand for the calls of each of them.          *)
C12_NoDeadlock ==
    /\ [](NoCyclicWait /\ NoReacquire /\ SomeoneRuns /\ HoldsOnlyInside)
    /\ Busy(1) ~> ~Busy(1)

(* A thread holds its guard on INSTANCE and has taken the writer bit of   *)
(* ADAPTER, and waits for a thread that reads ADAPTER inside new().       *)
C12_Witness ==
    \E t, u \in Threads :
      /\ t /= u
      /\ readers["INSTANCE"][t] = 1
      /\ writer_bit["ADAPTER"] = t
      /\ pc[u] = [fn |-> "new", at |-> "body"]
      /\ readers["ADAPTER"][u] = 1
      /\ WaitsFor(t, u)

====
